---------------------------- MODULE Spec2Model ----------------------------
(* A model of the movie chatbot: the Flask front end (app.py) and its two   *)
(* engines, MovieChatbot (scripts/chatbot.py) and GeminiMovieChatbot        *)
(* (scripts/gemini_chatbot.py).                                             *)
(*                                                                          *)
(* Text is a sequence of string fragments; concatenation of Python strings  *)
(* and f-strings is \o.  A raw model reply is a sequence of lines.          *)
EXTENDS Integers, Sequences, FiniteSets, TLC

\* ------------------------------------------------------------------ bounds
MaxRequests == 2       \* /chat requests served in one behaviour
MaxThreads == 2        \* request threads of the front end

Threads == 1..MaxThreads
Clients == {"alice", "bob"}                 \* end users (browser sessions)
Questions == {<<"q1">>, <<"q2">>}           \* the 'question' field of a request
ModelFields == {"gemini", "openrouter", "absent"}   \* the 'model' field

\* The two module-level engine instances of app.py.
chatbot == "chatbot"
gemini_bot == "gemini_bot"
Engines == {chatbot, gemini_bot}

\* ------------------------------------------------------------ text helpers
IsBlank(tok) == tok \in {"", " ", "\n"}

RECURSIVE LStrip(_)
LStrip(s) == IF s # <<>> /\ IsBlank(Head(s)) THEN LStrip(Tail(s)) ELSE s

RECURSIVE RStrip(_)
RStrip(s) ==
    IF s # <<>> /\ IsBlank(s[Len(s)]) THEN RStrip(SubSeq(s, 1, Len(s) - 1)) ELSE s

\* str.strip(): leading and trailing whitespace removed, the middle kept.
Strip(s) == RStrip(LStrip(s))

\* sep.join(parts), parts a sequence of texts, sep a fragment.
RECURSIVE Join(_, _)
Join(parts, sep) ==
    IF parts = <<>> THEN <<>>
    ELSE IF Len(parts) = 1 THEN parts[1]
    ELSE parts[1] \o <<sep>> \o Join(Tail(parts), sep)

\* The concatenation of a sequence of sequences.
RECURSIVE Flatten(_)
Flatten(ss) == IF ss = <<>> THEN <<>> ELSE Head(ss) \o Flatten(Tail(ss))

IsPrefix(s, t) == Len(s) <= Len(t) /\ SubSeq(t, 1, Len(s)) = s

\* ------------------------------------------------- Python values of a reply
\* A JSON value as json.loads returns it: a dict with some of the members
\* 'query' and 'params', or something that is not a dict (list, number, ...).
PyNone == [py |-> "None", v |-> ""]
PyStr(s) == [py |-> "str", v |-> s]
PyDict == [py |-> "dict", v |-> ""]
PyList == [py |-> "list", v |-> ""]

\* Python's truth test (not x) for the values above.
Falsy(x) == x = PyNone \/ x = PyStr("")

EmptyInfo == [isDict |-> TRUE, members |-> {}, query |-> PyNone, params |-> PyNone]
Info(q, p) == [isDict |-> TRUE, members |-> {"query", "params"}, query |-> q, params |-> p]
InfoQueryOnly(q) == [isDict |-> TRUE, members |-> {"query"}, query |-> q, params |-> PyNone]
InfoParamsOnly(p) == [isDict |-> TRUE, members |-> {"params"}, query |-> PyNone, params |-> p]
NotADict == [isDict |-> FALSE, members |-> {}, query |-> PyNone, params |-> PyNone]

\* Single-line JSON documents a model may emit, and the value of each.
OBJ_OK == "{\"query\": \"MATCH (m:Movie) RETURN m\", \"params\": {}}"
OBJ_NOPARAMS == "{\"query\": \"MATCH (m:Movie) RETURN m\"}"
OBJ_NOQUERY == "{\"params\": {}}"
OBJ_EMPTYQUERY == "{\"query\": \"\", \"params\": {}}"
OBJ_BADPARAMS == "{\"query\": \"MATCH (m:Movie) RETURN m\", \"params\": [1]}"
OBJ_EMPTY == "{}"
ARRAY == "[1, 2]"
CYPHER == "MATCH (m:Movie) RETURN m"

JsonDocs == {OBJ_OK, OBJ_NOPARAMS, OBJ_NOQUERY, OBJ_EMPTYQUERY, OBJ_BADPARAMS,
             OBJ_EMPTY, ARRAY}

JsonValue(doc) ==
    CASE doc = OBJ_OK -> Info(PyStr(CYPHER), PyDict)
      [] doc = OBJ_NOPARAMS -> InfoQueryOnly(PyStr(CYPHER))
      [] doc = OBJ_NOQUERY -> InfoParamsOnly(PyDict)
      [] doc = OBJ_EMPTYQUERY -> Info(PyStr(""), PyDict)
      [] doc = OBJ_BADPARAMS -> Info(PyStr(CYPHER), PyList)
      [] doc = OBJ_EMPTY -> EmptyInfo
      [] OTHER -> NotADict

\* json.loads("\n".join(lines)): whitespace around the one document is
\* allowed, anything else (no document, two documents, other text) is a
\* JSONDecodeError.
NonBlank(lines) == SelectSeq(lines, LAMBDA l : ~IsBlank(l))
JsonParses(lines) == Len(NonBlank(lines)) = 1 /\ NonBlank(lines)[1] \in JsonDocs
JsonLoads(lines) == JsonValue(NonBlank(lines)[1])

\* A code fence line (three backquotes, with or without a language tag) is
\* written FENCE or FENCE_JSON; IsFence is line.startswith of three backquotes.
FENCE == "<fence>"
FENCE_JSON == "<fence>json"
IsFence(line) == line \in {FENCE, FENCE_JSON}

\* Raw replies of the translation model call, as sequences of lines.
RawOutputs ==
    { <<OBJ_OK>>,
      <<FENCE_JSON, OBJ_OK, FENCE>>,
      <<FENCE_JSON, OBJ_OK>>,
      <<"", OBJ_OK, "">>,
      <<OBJ_OK, FENCE>>,
      <<FENCE_JSON, FENCE_JSON, OBJ_OK, FENCE, FENCE>>,
      <<OBJ_NOPARAMS>>,
      <<OBJ_NOQUERY>>,
      <<OBJ_EMPTYQUERY>>,
      <<OBJ_BADPARAMS>>,
      <<ARRAY>>,
      <<"not json">>,
      <<FENCE_JSON, "{not json}", FENCE>>,
      <<FENCE>>,
      <<FENCE, FENCE>>,
      <<>> }


\* generate_cypher from the point where the model call has returned content:
\* strip, drop one leading and one trailing fence line, json.loads.  The
\* result is the returned value, or the IndexError of parts[-1] on an empty
\* list.
FenceStripped(raw) ==
    LET parts0 == raw
        parts1 == IF IsFence(parts0[1]) THEN Tail(parts0) ELSE parts0
    IN  IF parts1 = <<>> THEN [indexError |-> TRUE, lines |-> <<>>]
        ELSE [indexError |-> FALSE,
              lines |-> IF IsFence(parts1[Len(parts1)])
                        THEN SubSeq(parts1, 1, Len(parts1) - 1)
                        ELSE parts1]

generate_cypher(content) ==
    LET raw == Strip(content)
        startsWithFence == raw # <<>> /\ IsFence(raw[1])
        fs == IF startsWithFence THEN FenceStripped(raw)
              ELSE [indexError |-> FALSE, lines |-> raw]
    IN  IF fs.indexError THEN [raised |-> TRUE, info |-> EmptyInfo]
        ELSE IF JsonParses(fs.lines) THEN [raised |-> FALSE, info |-> JsonLoads(fs.lines)]
        ELSE [raised |-> FALSE, info |-> EmptyInfo]

\* ------------------------------------------------------------ store results
\* A record is a sequence of columns in the store's order; a column value is
\* a scalar or a node (a value with .items(), a sequence of prop/value pairs).
Scalar(k, x) == [key |-> k, composite |-> FALSE, scalar |-> x, items |-> <<>>]
Node(k, kv) == [key |-> k, composite |-> TRUE, scalar |-> "", items |-> kv]

RecRating == << Scalar("rating", "8.8") >>
RecMovie == << Node("m", << <<"title", "Inception">>, <<"year", "2010">> >>),
               Scalar("n", "1") >>

ResultSets == { <<>>, <<RecMovie, RecRating>> }
StoreErrors == {"SyntaxError: Invalid input"}

\* ColumnParts emitting the column name of a node before its properties.
ColumnParts_Named(col) ==
    IF col.composite
    THEN << <<col.key, ": ", "node">> >>
         \o [i \in 1..Len(col.items) |-> <<col.items[i][1], ": ", col.items[i][2]>>]
    ELSE << <<col.key, ": ", col.scalar>> >>

\* The parts of one record (chatbot.py 234-240, gemini_chatbot.py 119-123).
ColumnParts(col) ==
    IF col.composite
    THEN [i \in 1..Len(col.items) |-> <<col.items[i][1], ": ", col.items[i][2]>>]
    ELSE << <<col.key, ": ", col.scalar>> >>

RecordParts(rec) == Flatten([i \in 1..Len(rec) |-> ColumnParts(rec[i])])

RecordLine(rec) == <<"- ">> \o Join(RecordParts(rec), ", ")

\* raw_text: the header line and one line per record, joined by newlines.
RawText(q, recs) ==
    Join(<< <<"Results for '">> \o q \o <<"':">> >>
         \o [i \in 1..Len(recs) |-> RecordLine(recs[i])], "\n")

\* user_msg (chatbot.py 249-254, gemini_chatbot.py 133-138).
UserMsg(q, recs) ==
    <<"User question: ">> \o q \o <<"\n", "Database query results:\n">>
    \o RawText(q, recs)
    \o <<"\n", "Please answer the question based on these results.">>

\* ---------------------------------------------------------- fixed strings
NoResultsMsg(e) ==
    IF e = chatbot THEN <<"Sorry, I couldn't find anything for your question.">>
    ELSE <<"Sorry, I couldn't find anything.">>
NoQueryMsg == <<"Sorry, couldn't generate query.">>
ProblemPrefix == <<"Sorry, I had a problem: ">>

SystemMsg(e) ==
    IF e = chatbot
    THEN <<"You are ChatGPT, an AI assistant specialized in answering movie database queries. ...">>
    ELSE <<"You are a friendly, human-like movie expert chatting with the user. ...">>

ModelName(e) == IF e = chatbot THEN "deepseek/deepseek-chat-v3-0324:free" ELSE "gemini-2.5-flash"

Turn(r, c) == [role |-> r, content |-> c]

\* The prompt of generate_cypher: the schema, the question, the directive.
CypherPrompt(q) ==
    <<"Given the Neo4j database schema with the following definitions: ... to answer: '">>
    \o q \o <<"'. Respond strictly with a JSON object containing 'query' and 'params'.">>

\* The request generate_cypher sends: one system message (OpenRouter) or the
\* prompt as contents (Gemini).
TranslationRequest(e, q) ==
    IF e = chatbot
    THEN [model |-> ModelName(e), messages |-> <<Turn("system", CypherPrompt(q))>>,
          contents |-> <<>>]
    ELSE [model |-> ModelName(e), messages |-> <<>>, contents |-> CypherPrompt(q)]

\* The request of the final answer: system message followed by the history
\* (OpenRouter), or one text of system message and "role: content" lines.
SynthesisRequest(e, hist) ==
    IF e = chatbot
    THEN [model |-> ModelName(e), messages |-> <<Turn("system", SystemMsg(e))>> \o hist,
          contents |-> <<>>]
    ELSE [model |-> ModelName(e), messages |-> <<>>,
          contents |-> SystemMsg(e) \o <<"\n">>
              \o Join([i \in 1..Len(hist) |-> <<hist[i].role, ": ">> \o hist[i].content], "\n")]

NoRequest == [model |-> "", messages |-> <<>>, contents |-> <<>>]

\* Replies of the answer model call before .strip().
AnswerTexts == { <<"It is rated 8.8.">>, <<" ", "It is rated 8.8.", "\n">>, <<" ">> }

\* Exceptions: the type, str(e), and the step that raised.
Exc(ty, m, at) == [type |-> ty, msg |-> m, at |-> at]
NoExc == Exc("", "", "")
ModelErrors == {"Rate limit exceeded"}


\* ------------------------------------------------------------------- state
VARIABLES
    history,        \* self.history of each engine
    origin,         \* per engine, the end user whose request appended each Turn
    owner,          \* per engine, the call (its number) that appended each Turn
    pc,             \* where each request thread is
    bot,            \* the engine app.chat picked
    client,         \* the end user who sent the request
    model,          \* the 'model' field of the request, until bot.chat is called
    callId,         \* the number of the bot.chat call among the calls of its engine
    user_question,  \* the question of the request
    info,           \* what generate_cypher returned
    cursor,         \* the result of session.run, not yet read
    records,        \* the materialized records
    ret,            \* the value bot.chat returned
    exc,            \* the exception bot.chat raised
    answer,         \* the 'answer' of the JSON response
    open,           \* store sessions the thread holds open
    calls,          \* per call: model and store calls made, sessions opened
    preHist,        \* the engine's history when bot.chat was entered
    overlap,        \* another bot.chat call ran on the same engine during this one
    transReq,       \* the request generate_cypher sent
    reply,          \* the raw reply of the translation model call
    synthReq,       \* the request of the final answer
    prevTrans,      \* per engine, the translation request of the previous call
    served,         \* /chat requests accepted so far
    search,         \* the call of search_database, if one was made
    status          \* the model named in the response of the last /set_model

locals == <<pc, bot, client, model, callId, user_question, info, cursor, records, ret,
            exc, answer, open, calls, preHist, overlap, transReq, reply, synthReq>>
vars == <<history, origin, owner, locals, prevTrans, served, search, status>>

NoCalls == [chat |-> 0, translate |-> 0, sessions |-> 0, runs |-> 0, rejected |-> 0,
            synthesize |-> 0]
NoReply == [received |-> FALSE, content |-> <<>>]
\* A search_info dict: its 'intent' and 'entities' members, if it has them;
\* entities is a set of slot/value pairs.
SearchInfo(hasIntent, intent, hasEntities, entities) ==
    [hasIntent |-> hasIntent, intent |-> intent,
     hasEntities |-> hasEntities, entities |-> entities]

\* No call of search_database: nothing run, nothing returned.
NoSearch == [pc |-> "none", search_info |-> SearchInfo(FALSE, "", FALSE, {}),
             open |-> 0, sessions |-> 0, runs |-> <<>>, result |-> <<>>,
             exc |-> NoExc]
NoPrev == [asked |-> FALSE, question |-> <<>>, hist |-> <<>>, request |-> NoRequest]

Init ==
    /\ history = [e \in Engines |-> <<>>]
    /\ origin = [e \in Engines |-> <<>>]
    /\ owner = [e \in Engines |-> <<>>]
    /\ pc = [t \in Threads |-> "idle"]
    /\ bot = [t \in Threads |-> "none"]
    /\ client = [t \in Threads |-> "none"]
    /\ model = [t \in Threads |-> "none"]
    /\ callId = [t \in Threads |-> 0]
    /\ user_question = [t \in Threads |-> <<>>]
    /\ info = [t \in Threads |-> EmptyInfo]
    /\ cursor = [t \in Threads |-> <<>>]
    /\ records = [t \in Threads |-> <<>>]
    /\ ret = [t \in Threads |-> <<>>]
    /\ exc = [t \in Threads |-> NoExc]
    /\ answer = [t \in Threads |-> <<>>]
    /\ open = [t \in Threads |-> 0]
    /\ calls = [t \in Threads |-> NoCalls]
    /\ preHist = [t \in Threads |-> <<>>]
    /\ overlap = [t \in Threads |-> FALSE]
    /\ transReq = [t \in Threads |-> NoRequest]
    /\ reply = [t \in Threads |-> NoReply]
    /\ synthReq = [t \in Threads |-> NoRequest]
    /\ prevTrans = [e \in Engines |-> NoPrev]
    /\ served = 0
    /\ search = NoSearch
    /\ status = "none"

\* The number of thread t's bot.chat call: a call that is being entered is
\* one more than the calls that have appended to the engine's history (each
\* call appends its question on entry).
CallNo(t) ==
    IF pc[t] = "chat"
    THEN Cardinality({owner[bot[t]][i] : i \in 1..Len(owner[bot[t]])}) + 1
    ELSE callId[t]

\* HistoryAppend keeping a bounded window: the oldest Turn is dropped once
\* the history holds three.
HistoryAppend_Trim(t, r, c) ==
    LET h == history[bot[t]]
        o == origin[bot[t]]
    IN  /\ history' = [history EXCEPT ![bot[t]] =
                          Append(IF Len(h) >= 3 THEN Tail(h) ELSE h, Turn(r, c))]
        /\ origin' = [origin EXCEPT ![bot[t]] =
                          Append(IF Len(o) >= 3 THEN Tail(o) ELSE o, client[t])]
        /\ owner' = [owner EXCEPT ![bot[t]] =
                          Append(IF Len(@) >= 3 THEN Tail(@) ELSE @, CallNo(t))]

\* self.history.append({"role": r, "content": c}) by thread t.
HistoryAppend(t, r, c) ==
    /\ history' = [history EXCEPT ![bot[t]] = Append(@, Turn(r, c))]
    /\ origin' = [origin EXCEPT ![bot[t]] = Append(@, client[t])]
    /\ owner' = [owner EXCEPT ![bot[t]] = Append(@, CallNo(t))]

\* bot.chat of thread u is in progress: entered and neither returned nor raised.
InChat(u) ==
    pc[u] \in {"translating", "generated", "translated", "session", "cursor",
               "materialized", "executed", "synthesizing"}

\* overlap after thread t enters bot.chat: t and every call in progress on
\* the same engine overlap.
Overlaps(t) ==
    [u \in Threads |->
        IF u = t THEN \E v \in Threads \ {t} : InChat(v) /\ bot[v] = bot[t]
        ELSE overlap[u] \/ (InChat(u) /\ bot[u] = bot[t])]

\* bot.chat raises e: the call ends, nothing is returned.
Raise(t, e) ==
    /\ pc' = [pc EXCEPT ![t] = "raised"]
    /\ exc' = [exc EXCEPT ![t] = e]
    /\ UNCHANGED ret

\* bot.chat returns text.
Return(t, text) ==
    /\ pc' = [pc EXCEPT ![t] = "returned"]
    /\ ret' = [ret EXCEPT ![t] = text]
    /\ UNCHANGED exc

\* ChatRequest picking the Gemini engine unless the model field names the
\* other one.
ChatRequest_DefaultGemini(t, c, q, m) ==
    /\ served < MaxRequests
    /\ \A u \in Threads : pc[u] = "idle"
    /\ t = 1
    /\ pc' = [pc EXCEPT ![t] = "chat"]
    /\ bot' = [bot EXCEPT ![t] = IF m = "openrouter" THEN chatbot ELSE gemini_bot]
    /\ client' = [client EXCEPT ![t] = c]
    /\ model' = [model EXCEPT ![t] = m]
    /\ user_question' = [user_question EXCEPT ![t] = q]
    /\ served' = served + 1
    /\ UNCHANGED <<history, origin, owner, callId, info, cursor, records, ret,
                   exc, answer, open, calls, preHist, overlap, transReq, reply,
                   synthReq, prevTrans,
                   search, status>>

\* ChatRequest reading the model of the last /set_model request when the
\* /chat request names none.
ChatRequest_Sticky(t, c, q, m) ==
    /\ served < MaxRequests
    /\ \A u \in Threads : pc[u] = "idle"
    /\ t = 1
    /\ pc' = [pc EXCEPT ![t] = "chat"]
    /\ bot' = [bot EXCEPT ![t] =
                  IF m = "gemini" \/ (m = "absent" /\ status = "gemini")
                  THEN gemini_bot ELSE chatbot]
    /\ client' = [client EXCEPT ![t] = c]
    /\ model' = [model EXCEPT ![t] = m]
    /\ user_question' = [user_question EXCEPT ![t] = q]
    /\ served' = served + 1
    /\ UNCHANGED <<history, origin, owner, callId, info, cursor, records, ret,
                   exc, answer, open, calls, preHist, overlap, transReq, reply,
                   synthReq, prevTrans, search, status>>

\* app.chat, lines 157-160: read the request and pick the engine.  Under Spec
\* requests are served one at a time (the callers serialize their calls on an
\* engine), so a request is accepted when no thread is busy and, the threads
\* being interchangeable, it is given to the first.
ChatRequest(t, c, q, m) ==
    /\ served < MaxRequests
    /\ \A u \in Threads : pc[u] = "idle"
    /\ t = 1
    /\ pc' = [pc EXCEPT ![t] = "chat"]
    /\ bot' = [bot EXCEPT ![t] = IF m = "gemini" THEN gemini_bot ELSE chatbot]
    /\ client' = [client EXCEPT ![t] = c]
    /\ model' = [model EXCEPT ![t] = m]
    /\ user_question' = [user_question EXCEPT ![t] = q]
    /\ served' = served + 1
    /\ UNCHANGED <<history, origin, owner, callId, info, cursor, records, ret,
                   exc, answer, open, calls, preHist, overlap, transReq, reply,
                   synthReq, prevTrans,
                   search, status>>

\* AppendQuestion without the append of the question.
AppendQuestion_NoAppend(t) ==
    /\ pc[t] = "chat"
    /\ preHist' = [preHist EXCEPT ![t] = history[bot[t]]]
    /\ overlap' = Overlaps(t)
    /\ transReq' = [transReq EXCEPT ![t] = TranslationRequest(bot[t], user_question[t])]
    /\ calls' = [calls EXCEPT ![t].chat = @ + 1, ![t].translate = @ + 1]
    /\ pc' = [pc EXCEPT ![t] = "translating"]
    /\ model' = [model EXCEPT ![t] = "none"]
    /\ callId' = [callId EXCEPT ![t] = CallNo(t)]
    /\ UNCHANGED <<history, origin, owner, bot, client,
                   user_question, info, cursor, records, ret, exc, answer, open,
                   reply, synthReq, prevTrans, served,
                   search, status>>

\* app.chat line 162 calls bot.chat (the request's model field is not read
\* again); bot.chat's first statement and generate_cypher up to the model
\* call: the question is appended with role user and the translation request
\* is sent.
AppendQuestion(t) ==
    /\ pc[t] = "chat"
    /\ preHist' = [preHist EXCEPT ![t] = history[bot[t]]]
    /\ overlap' = Overlaps(t)
    /\ HistoryAppend(t, "user", user_question[t])
    /\ transReq' = [transReq EXCEPT ![t] = TranslationRequest(bot[t], user_question[t])]
    /\ calls' = [calls EXCEPT ![t].chat = @ + 1, ![t].translate = @ + 1]
    /\ pc' = [pc EXCEPT ![t] = "translating"]
    /\ model' = [model EXCEPT ![t] = "none"]
    /\ callId' = [callId EXCEPT ![t] = CallNo(t)]
    /\ UNCHANGED <<bot, client, user_question, info, cursor,
                   records, ret, exc, answer, open, reply, synthReq, prevTrans,
                   served,
                   search, status>>

\* TranslateRaise with one automatic retry: the first failure of the model
\* call sends the request again.
TranslateRaise_Retry(t, m) ==
    /\ pc[t] = "translating"
    /\ IF calls[t].translate < 2
       THEN /\ calls' = [calls EXCEPT ![t].translate = @ + 1]
            /\ UNCHANGED <<pc, exc, ret>>
       ELSE /\ Raise(t, Exc("APIError", m, "translate"))
            /\ UNCHANGED calls
    /\ UNCHANGED <<history, origin, owner, bot, client, model, callId,
                   user_question, info, cursor, records, answer, open,
                   preHist, overlap, transReq, reply, synthReq, prevTrans,
                   served,
                   search, status>>

\* The translation model call raises.
TranslateRaise(t, m) ==
    /\ pc[t] = "translating"
    /\ Raise(t, Exc("APIError", m, "translate"))
    /\ UNCHANGED <<history, origin, owner, bot, client, model, callId,
                   user_question, info, cursor, records, answer, open, calls,
                   preHist, overlap, transReq, reply, synthReq, prevTrans,
                   served,
                   search, status>>

\* The translation model call returns content: the rest of generate_cypher,
\* which returns the parsed value, returns {} or raises the IndexError.
TranslateReturn(t, content) ==
    /\ pc[t] = "translating"
    /\ reply' = [reply EXCEPT ![t] = [received |-> TRUE, content |-> content]]
    /\ LET g == generate_cypher(content) IN
        /\ info' = [info EXCEPT ![t] = g.info]
        /\ IF g.raised
           THEN Raise(t, Exc("IndexError", "list index out of range", "translate"))
           ELSE /\ pc' = [pc EXCEPT ![t] = "generated"]
                /\ UNCHANGED <<ret, exc>>
    /\ UNCHANGED <<history, origin, owner, bot, client, model, callId,
                   user_question, cursor, records, answer, open, calls, preHist,
                   overlap, transReq, synthReq, prevTrans, served,
                   search, status>>

\* GetQuery asking the model again for as long as the reply holds no query.
GetQuery_Retry(t) ==
    /\ pc[t] = "generated"
    /\ reply' = [reply EXCEPT ![t] = NoReply]
    /\ IF ~info[t].isDict
       THEN Raise(t, Exc("AttributeError", "object has no attribute 'get'", "translate"))
       ELSE IF Falsy(info[t].query)
       THEN /\ pc' = [pc EXCEPT ![t] = "translating"]
            /\ UNCHANGED <<ret, exc>>
       ELSE /\ pc' = [pc EXCEPT ![t] = "translated"]
            /\ UNCHANGED <<ret, exc>>
    /\ UNCHANGED <<history, origin, owner, bot, client, model, callId,
                   user_question, info, cursor, records, answer, open, calls,
                   preHist, overlap, transReq, synthReq, prevTrans, served,
                   search, status>>

\* Back in chat, generate_cypher's raw text is gone: info.get('query'),
\* info.get('params', {}) and, in the Gemini engine only, the test of an
\* empty query.
GetQuery(t) ==
    /\ pc[t] = "generated"
    /\ reply' = [reply EXCEPT ![t] = NoReply]
    /\ IF ~info[t].isDict
       THEN Raise(t, Exc("AttributeError", "object has no attribute 'get'", "translate"))
       ELSE IF bot[t] = gemini_bot /\ Falsy(info[t].query)
       THEN Return(t, NoQueryMsg)
       ELSE /\ pc' = [pc EXCEPT ![t] = "translated"]
            /\ UNCHANGED <<ret, exc>>
    /\ UNCHANGED <<history, origin, owner, bot, client, model, callId,
                   user_question, info, cursor, records, answer, open, calls,
                   preHist, overlap, transReq, synthReq, prevTrans, served,
                   search, status>>

\* with self.driver.session(database=...) as session: the session is opened.
OpenSession(t) ==
    /\ pc[t] = "translated"
    /\ open' = [open EXCEPT ![t] = @ + 1]
    /\ calls' = [calls EXCEPT ![t].sessions = @ + 1]
    /\ pc' = [pc EXCEPT ![t] = "session"]
    /\ UNCHANGED <<history, origin, owner, bot, client, model, callId,
                   user_question, info, cursor, records, ret, exc, answer,
                   preHist, overlap, transReq, reply, synthReq, prevTrans,
                   served,
                   search, status>>

\* RunQuery with a session that is closed only when the with block is left
\* normally: an exception leaves it open.
RunQuery_Leak(t, outcome) ==
    /\ pc[t] = "session"
    /\ LET params == IF "params" \in info[t].members THEN info[t].params ELSE PyDict
           query == info[t].query
       IN  IF params # PyDict
           THEN /\ Raise(t, Exc("TypeError", "argument after ** must be a mapping", "execute"))
                /\ calls' = [calls EXCEPT ![t].rejected = @ + 1]
                /\ UNCHANGED <<cursor, open>>
           ELSE IF Falsy(query)
           THEN /\ Raise(t, Exc("ValueError", "Cannot run an empty query", "execute"))
                /\ calls' = [calls EXCEPT ![t].runs = @ + 1, ![t].rejected = @ + 1]
                /\ UNCHANGED <<cursor, open>>
           ELSE IF outcome \in StoreErrors
           THEN /\ Raise(t, Exc("Neo4jError", outcome, "execute"))
                /\ calls' = [calls EXCEPT ![t].runs = @ + 1, ![t].rejected = @ + 1]
                /\ UNCHANGED <<cursor, open>>
           ELSE /\ cursor' = [cursor EXCEPT ![t] = outcome]
                /\ calls' = [calls EXCEPT ![t].runs = @ + 1]
                /\ pc' = [pc EXCEPT ![t] = "cursor"]
                /\ UNCHANGED <<open, ret, exc>>
    /\ UNCHANGED <<history, origin, owner, bot, client, model, callId,
                   user_question, info, records, answer, preHist, overlap,
                   transReq, reply, synthReq, prevTrans, served,
                   search, status>>

\* session.run(query, **params) inside the with block.  **params of a value
\* that is not a mapping is a TypeError before run is entered; run rejects an
\* empty or missing query with a ValueError; otherwise the store answers with
\* an error or a result.  An exception leaves the with block, which closes
\* the session.
RunQuery(t, outcome) ==
    /\ pc[t] = "session"
    /\ LET params == IF "params" \in info[t].members THEN info[t].params ELSE PyDict
           query == info[t].query
       IN  IF params # PyDict
           THEN /\ Raise(t, Exc("TypeError", "argument after ** must be a mapping", "execute"))
                /\ open' = [open EXCEPT ![t] = @ - 1]
                /\ calls' = [calls EXCEPT ![t].rejected = @ + 1]
                /\ UNCHANGED cursor
           ELSE IF Falsy(query)
           THEN /\ Raise(t, Exc("ValueError", "Cannot run an empty query", "execute"))
                /\ open' = [open EXCEPT ![t] = @ - 1]
                /\ calls' = [calls EXCEPT ![t].runs = @ + 1, ![t].rejected = @ + 1]
                /\ UNCHANGED cursor
           ELSE IF outcome \in StoreErrors
           THEN /\ Raise(t, Exc("Neo4jError", outcome, "execute"))
                /\ open' = [open EXCEPT ![t] = @ - 1]
                /\ calls' = [calls EXCEPT ![t].runs = @ + 1, ![t].rejected = @ + 1]
                /\ UNCHANGED cursor
           ELSE /\ cursor' = [cursor EXCEPT ![t] = outcome]
                /\ calls' = [calls EXCEPT ![t].runs = @ + 1]
                /\ pc' = [pc EXCEPT ![t] = "cursor"]
                /\ UNCHANGED <<open, ret, exc>>
    /\ UNCHANGED <<history, origin, owner, bot, client, model, callId,
                   user_question, info, records, answer, preHist, overlap,
                   transReq, reply, synthReq, prevTrans, served,
                   search, status>>

\* Materialize with the list built after the with block: the session is
\* released first and the cursor is read afterwards.
Materialize_AfterClose(t) ==
    /\ pc[t] = "cursor"
    /\ open' = [open EXCEPT ![t] = 0]
    /\ records' = [records EXCEPT ![t] = cursor[t]]
    /\ cursor' = [cursor EXCEPT ![t] = <<>>]
    /\ pc' = [pc EXCEPT ![t] = "materialized"]
    /\ UNCHANGED <<history, origin, owner, bot, client, model, callId,
                   user_question, info, ret, exc, answer, calls, preHist,
                   overlap, transReq, reply, synthReq, prevTrans, served,
                   search, status>>

\* records = [r for r in results], still inside the with block.
Materialize(t) ==
    /\ pc[t] = "cursor"
    /\ records' = [records EXCEPT ![t] = cursor[t]]
    /\ cursor' = [cursor EXCEPT ![t] = <<>>]
    /\ pc' = [pc EXCEPT ![t] = "materialized"]
    /\ UNCHANGED <<history, origin, owner, bot, client, model, callId,
                   user_question, info, ret, exc, answer, open, calls, preHist,
                   overlap, transReq, reply, synthReq, prevTrans, served,
                   search, status>>

\* CloseSession with a session that stays open after the with block: it is
\* held until the call ends.
CloseSession_Deferred(t) ==
    /\ pc[t] = "materialized"
    /\ pc' = [pc EXCEPT ![t] = "executed"]
    /\ UNCHANGED <<history, origin, owner, bot, client, model, callId,
                   user_question, info, cursor, records, ret, exc, answer,
                   open, calls, preHist, overlap, transReq, reply, synthReq,
                   prevTrans, served,
                   search, status>>

\* The with block is left normally: the session is closed.
CloseSession(t) ==
    /\ pc[t] = "materialized"
    /\ open' = [open EXCEPT ![t] = @ - 1]
    /\ pc' = [pc EXCEPT ![t] = "executed"]
    /\ UNCHANGED <<history, origin, owner, bot, client, model, callId,
                   user_question, info, cursor, records, ret, exc, answer,
                   calls, preHist, overlap, transReq, reply, synthReq,
                   prevTrans, served,
                   search, status>>

\* NoRecords going on to the answer model call with an empty result instead
\* of returning.
NoRecords_Synthesize(t) ==
    /\ pc[t] = "executed"
    /\ records[t] = <<>>
    /\ HistoryAppend(t, "user", UserMsg(user_question[t], records[t]))
    /\ synthReq' = [synthReq EXCEPT ![t] = SynthesisRequest(bot[t], history'[bot[t]])]
    /\ calls' = [calls EXCEPT ![t].synthesize = @ + 1]
    /\ pc' = [pc EXCEPT ![t] = "synthesizing"]
    /\ UNCHANGED <<bot, client, model, callId, user_question, info, cursor,
                   records, ret, exc, answer, open, preHist, overlap, transReq,
                   reply, prevTrans, served,
                   search, status>>

\* NoRecords recording the no-results message as an assistant Turn before
\* returning it.
NoRecords_Recorded(t) ==
    /\ pc[t] = "executed"
    /\ records[t] = <<>>
    /\ HistoryAppend(t, "assistant", NoResultsMsg(bot[t]))
    /\ Return(t, NoResultsMsg(bot[t]))
    /\ UNCHANGED <<bot, client, model, callId,
                   user_question, info, cursor, records, answer, open, calls,
                   preHist, overlap, transReq, reply, synthReq, prevTrans,
                   served, search, status>>

\* if not records: return the no-results message.
NoRecords(t) ==
    /\ pc[t] = "executed"
    /\ records[t] = <<>>
    /\ Return(t, NoResultsMsg(bot[t]))
    /\ UNCHANGED <<history, origin, owner, bot, client, model, callId,
                   user_question, info, cursor, records, answer, open, calls,
                   preHist, overlap, transReq, reply, synthReq, prevTrans,
                   served,
                   search, status>>

\* AppendResults with a block that depends on the engine's state: past the
\* first exchange of a history the block is marked as a follow-up.
AppendResults_Numbered(t) ==
    /\ pc[t] = "executed"
    /\ records[t] # <<>>
    /\ HistoryAppend(t, "user",
                     UserMsg(user_question[t], records[t])
                     \o IF Len(history[bot[t]]) > 1 THEN <<"\n", "(follow-up)">> ELSE <<>>)
    /\ synthReq' = [synthReq EXCEPT ![t] = SynthesisRequest(bot[t], history'[bot[t]])]
    /\ calls' = [calls EXCEPT ![t].synthesize = @ + 1]
    /\ pc' = [pc EXCEPT ![t] = "synthesizing"]
    /\ UNCHANGED <<bot, client, model, callId, user_question, info, cursor,
                   records, ret, exc, answer, open, preHist, overlap, transReq,
                   reply, prevTrans, served,
                   search, status>>

\* AppendResults sending the history as it was before the results block was
\* appended.
AppendResults_StaleRequest(t) ==
    /\ pc[t] = "executed"
    /\ records[t] # <<>>
    /\ HistoryAppend(t, "user", UserMsg(user_question[t], records[t]))
    /\ synthReq' = [synthReq EXCEPT ![t] = SynthesisRequest(bot[t], history[bot[t]])]
    /\ calls' = [calls EXCEPT ![t].synthesize = @ + 1]
    /\ pc' = [pc EXCEPT ![t] = "synthesizing"]
    /\ UNCHANGED <<bot, client, model, callId, user_question, info, cursor,
                   records, ret, exc, answer, open, preHist, overlap, transReq,
                   reply, prevTrans, served,
                   search, status>>

\* AppendResults putting the results block at the head of the history
\* instead of its end.
AppendResults_Front(t) ==
    /\ pc[t] = "executed"
    /\ records[t] # <<>>
    /\ history' = [history EXCEPT ![bot[t]] =
                      <<Turn("user", UserMsg(user_question[t], records[t]))>> \o @]
    /\ origin' = [origin EXCEPT ![bot[t]] = <<client[t]>> \o @]
    /\ owner' = [owner EXCEPT ![bot[t]] = <<CallNo(t)>> \o @]
    /\ synthReq' = [synthReq EXCEPT ![t] = SynthesisRequest(bot[t], history'[bot[t]])]
    /\ calls' = [calls EXCEPT ![t].synthesize = @ + 1]
    /\ pc' = [pc EXCEPT ![t] = "synthesizing"]
    /\ UNCHANGED <<bot, client, model, callId, user_question, info, cursor,
                   records, ret, exc, answer, open, preHist, overlap, transReq,
                   reply, prevTrans, served,
                   search, status>>

\* Otherwise the results are formatted, user_msg is appended with role user
\* and the request of the final answer is sent with the history as it is.
AppendResults(t) ==
    /\ pc[t] = "executed"
    /\ records[t] # <<>>
    /\ HistoryAppend(t, "user", UserMsg(user_question[t], records[t]))
    /\ synthReq' = [synthReq EXCEPT ![t] = SynthesisRequest(bot[t], history'[bot[t]])]
    /\ calls' = [calls EXCEPT ![t].synthesize = @ + 1]
    /\ pc' = [pc EXCEPT ![t] = "synthesizing"]
    /\ UNCHANGED <<bot, client, model, callId, user_question, info, cursor,
                   records, ret, exc, answer, open, preHist, overlap, transReq,
                   reply, prevTrans, served,
                   search, status>>

\* SynthesisRaise undoing the append of the results block before the
\* exception leaves chat.
SynthesisRaise_Rollback(t, m) ==
    /\ pc[t] = "synthesizing"
    /\ Raise(t, Exc("APIError", m, "synthesize"))
    /\ history' = [history EXCEPT ![bot[t]] = SubSeq(@, 1, Len(@) - 1)]
    /\ origin' = [origin EXCEPT ![bot[t]] = SubSeq(@, 1, Len(@) - 1)]
    /\ owner' = [owner EXCEPT ![bot[t]] = SubSeq(@, 1, Len(@) - 1)]
    /\ UNCHANGED <<bot, client, model, callId,
                   user_question, info, cursor, records, answer, open, calls,
                   preHist, overlap, transReq, reply, synthReq, prevTrans,
                   served, search, status>>

\* The answer model call raises.
SynthesisRaise(t, m) ==
    /\ pc[t] = "synthesizing"
    /\ Raise(t, Exc("APIError", m, "synthesize"))
    /\ UNCHANGED <<history, origin, owner, bot, client, model, callId,
                   user_question, info, cursor, records, answer, open, calls,
                   preHist, overlap, transReq, reply, synthReq, prevTrans,
                   served,
                   search, status>>

\* SynthesisReturn recording the reply as received and returning it stripped.
SynthesisReturn_Unstripped(t, text) ==
    /\ pc[t] = "synthesizing"
    /\ HistoryAppend(t, "assistant", text)
    /\ Return(t, Strip(text))
    /\ UNCHANGED <<bot, client, model, callId, user_question, info, cursor,
                   records, answer, open, calls, preHist, overlap, transReq,
                   reply, synthReq, prevTrans, served,
                   search, status>>

\* The answer model call returns text: it is stripped, appended with role
\* assistant and returned.
SynthesisReturn(t, text) ==
    /\ pc[t] = "synthesizing"
    /\ HistoryAppend(t, "assistant", Strip(text))
    /\ Return(t, Strip(text))
    /\ UNCHANGED <<bot, client, model, callId, user_question, info, cursor,
                   records, answer, open, calls, preHist, overlap, transReq,
                   reply, synthReq, prevTrans, served,
                   search, status>>

\* app.chat, lines 161-165: the returned value is the answer; any exception
\* becomes 'Sorry, I had a problem: ' followed by str(e).
Respond(t) ==
    /\ pc[t] \in {"returned", "raised"}
    /\ answer' = [answer EXCEPT ![t] =
                    IF pc[t] = "returned" THEN ret[t] ELSE ProblemPrefix \o <<exc[t].msg>>]
    /\ pc' = [pc EXCEPT ![t] = "responded"]
    /\ UNCHANGED <<history, origin, owner, bot, client, model, callId,
                   user_question, info, cursor, records, ret, exc, open, calls,
                   preHist, overlap, transReq, reply, synthReq, prevTrans,
                   served,
                   search, status>>

\* The response is sent and the request thread ends: its locals are gone.
Finish(t) ==
    /\ pc[t] = "responded"
    /\ prevTrans' = [prevTrans EXCEPT ![bot[t]] =
                       [asked |-> TRUE, question |-> user_question[t],
                        hist |-> preHist[t], request |-> transReq[t]]]
    /\ pc' = [pc EXCEPT ![t] = "idle"]
    /\ bot' = [bot EXCEPT ![t] = "none"]
    /\ client' = [client EXCEPT ![t] = "none"]
    /\ model' = [model EXCEPT ![t] = "none"]
    /\ callId' = [callId EXCEPT ![t] = 0]
    /\ overlap' = [overlap EXCEPT ![t] = FALSE]
    /\ user_question' = [user_question EXCEPT ![t] = <<>>]
    /\ info' = [info EXCEPT ![t] = EmptyInfo]
    /\ cursor' = [cursor EXCEPT ![t] = <<>>]
    /\ records' = [records EXCEPT ![t] = <<>>]
    /\ ret' = [ret EXCEPT ![t] = <<>>]
    /\ exc' = [exc EXCEPT ![t] = NoExc]
    /\ answer' = [answer EXCEPT ![t] = <<>>]
    /\ calls' = [calls EXCEPT ![t] = NoCalls]
    /\ preHist' = [preHist EXCEPT ![t] = <<>>]
    /\ transReq' = [transReq EXCEPT ![t] = NoRequest]
    /\ reply' = [reply EXCEPT ![t] = NoReply]
    /\ synthReq' = [synthReq EXCEPT ![t] = NoRequest]
    /\ UNCHANGED <<history, origin, owner, open, served,
                   search, status>>

Next ==
    \E t \in Threads :
        \/ \E c \in Clients, q \in Questions, m \in ModelFields : ChatRequest(t, c, q, m)
        \/ AppendQuestion(t)
        \/ \E m \in ModelErrors : TranslateRaise(t, m)
        \/ \E content \in RawOutputs : TranslateReturn(t, content)
        \/ GetQuery(t)
        \/ OpenSession(t)
        \/ \E outcome \in StoreErrors \cup ResultSets : RunQuery(t, outcome)
        \/ Materialize(t)
        \/ CloseSession(t)
        \/ NoRecords(t)
        \/ AppendResults(t)
        \/ \E m \in ModelErrors : SynthesisRaise(t, m)
        \/ \E text \in AnswerTexts : SynthesisReturn(t, text)
        \/ Respond(t)
        \/ Finish(t)

\* The front end serving /chat requests one after the other.
Spec == Init /\ [][Next]_vars


\* app.chat, lines 157-160, as the development server runs it: a thread per
\* request and no lock around bot.chat, so a request is accepted whatever the
\* other threads are doing.  The threads being interchangeable, it is given
\* to the first idle one.
ChatRequestConc(t, c, q, m) ==
    /\ served < MaxRequests
    /\ pc[t] = "idle"
    /\ \A u \in Threads : u < t => pc[u] # "idle"
    /\ pc' = [pc EXCEPT ![t] = "chat"]
    /\ bot' = [bot EXCEPT ![t] = IF m = "gemini" THEN gemini_bot ELSE chatbot]
    /\ client' = [client EXCEPT ![t] = c]
    /\ model' = [model EXCEPT ![t] = m]
    /\ user_question' = [user_question EXCEPT ![t] = q]
    /\ served' = served + 1
    /\ UNCHANGED <<history, origin, owner, callId, info, cursor, records, ret,
                   exc, answer, open, calls, preHist, overlap, transReq, reply,
                   synthReq, prevTrans,
                   search, status>>

\* The inputs of the concurrent runs: one end user, one model field per
\* engine, and of each round trip one outcome per way it can end (a reply or
\* a model failure, a store error, no record, one record).
ConcClients == {"alice"}
ConcModelFields == {"gemini", "absent"}
ConcRawOutputs == {<<OBJ_OK>>}
ConcResultSets == {<<>>, <<RecRating>>}
ConcAnswerTexts == {<<"It is rated 8.8.">>}

NextConc ==
    \E t \in Threads :
        \/ \E c \in ConcClients, q \in Questions, m \in ConcModelFields :
               ChatRequestConc(t, c, q, m)
        \/ AppendQuestion(t)
        \/ \E m \in ModelErrors : TranslateRaise(t, m)
        \/ \E content \in ConcRawOutputs : TranslateReturn(t, content)
        \/ GetQuery(t)
        \/ OpenSession(t)
        \/ \E outcome \in StoreErrors \cup ConcResultSets : RunQuery(t, outcome)
        \/ Materialize(t)
        \/ CloseSession(t)
        \/ NoRecords(t)
        \/ AppendResults(t)
        \/ \E m \in ModelErrors : SynthesisRaise(t, m)
        \/ \E text \in ConcAnswerTexts : SynthesisReturn(t, text)
        \/ Respond(t)
        \/ Finish(t)

\* The front end serving /chat requests concurrently.  A step is one
\* statement-sized piece of a request, taken as a whole; the interleavings of
\* these steps are among those of the program.
SpecConc == Init /\ [][NextConc]_vars


\* The inputs of the runs that check termination: one end user and one
\* question, one model field per engine, and of each round trip one outcome
\* per way chat can go on from it.
LiveRawOutputs == {<<OBJ_OK>>, <<"not json">>, <<OBJ_BADPARAMS>>, <<ARRAY>>, <<FENCE>>}
LiveQuestions == {<<"q1">>}

\* One step of thread t inside bot.chat: a statement of chat, or the return
\* or failure of a model call or of the store.
CallStep(t) ==
    \/ AppendQuestion(t)
    \/ \E m \in ModelErrors : TranslateRaise(t, m)
    \/ \E content \in LiveRawOutputs : TranslateReturn(t, content)
    \/ GetQuery(t)
    \/ OpenSession(t)
    \/ \E outcome \in StoreErrors \cup ResultSets : RunQuery(t, outcome)
    \/ Materialize(t)
    \/ CloseSession(t)
    \/ NoRecords(t)
    \/ AppendResults(t)
    \/ \E m \in ModelErrors : SynthesisRaise(t, m)
    \/ \E text \in ConcAnswerTexts : SynthesisReturn(t, text)

NextLive ==
    \E t \in Threads :
        \/ \E c \in ConcClients, q \in LiveQuestions, m \in ConcModelFields :
               ChatRequest(t, c, q, m)
        \/ CallStep(t)
        \/ Respond(t)
        \/ Finish(t)

\* Requests served one after the other, with threads that keep running and
\* with model and store calls that eventually return or raise: a call that
\* can take a step takes one.
SpecLive == Init /\ [][NextLive]_vars /\ \A t \in Threads : WF_vars(CallStep(t))

\* app.set_model, lines 168-172: the model field is read and named in the
\* response; nothing is stored.
SetModel(m) ==
    /\ status' = m
    /\ UNCHANGED <<history, origin, owner, locals, prevTrans, served, search>>

NextSetModel ==
    \/ \E m \in ModelFields : SetModel(m)
    \/ \E t \in Threads :
           \/ \E c \in ConcClients, q \in LiveQuestions, m \in ModelFields :
                  ChatRequest(t, c, q, m)
           \/ CallStep(t)
           \/ Respond(t)
           \/ Finish(t)

\* /chat requests served one after the other, with /set_model requests at
\* any time.
SpecSetModel == Init /\ [][NextSetModel]_vars


\* ------------------------------------------------- the intent path
PyInt(n) == [py |-> "int", v |-> n]

\* The canned queries of MovieChatbot.
Q_ACTOR == "MATCH (p:Person {name: $actor_name})-[:ACTED_IN]->(m:Movie) RETURN m.title, m.year, m.genre, m.rating ORDER BY m.year"
Q_DIRECTOR == "MATCH (p:Person {name: $director_name})-[:DIRECTED]->(m:Movie) RETURN m.title, m.year, m.genre, m.rating ORDER BY m.year"
Q_GENRE == "MATCH (m:Movie {genre: $genre}) RETURN m.title, m.year, m.director, m.rating ORDER BY m.rating DESC"
Q_TOP == "MATCH (m:Movie) RETURN m.title, m.year, m.genre, m.rating ORDER BY m.rating DESC LIMIT $limit"

\* Inputs of search_database: the intent is one of the four, another one or
\* missing; the entities are missing, empty, hold one slot or hold all.
IntentTags == {"search_movies_by_actor", "search_movies_by_director",
               "search_movies_by_genre", "get_top_rated_movies", "get_movie_rating"}
EntitySets ==
    { {},
      {<<"actor_name", PyStr("Tom Hanks")>>},
      {<<"director_name", PyStr("Christopher Nolan")>>},
      {<<"genre", PyStr("Drama")>>},
      {<<"limit", PyInt("3")>>},
      {<<"actor_name", PyStr("Tom Hanks")>>,
       <<"director_name", PyStr("Christopher Nolan")>>,
       <<"genre", PyStr("Drama")>>, <<"limit", PyInt("3")>>} }
SearchInfos ==
    {SearchInfo(TRUE, i, TRUE, e) : i \in IntentTags, e \in EntitySets}
    \cup {SearchInfo(TRUE, i, FALSE, {}) : i \in IntentTags}
    \cup {SearchInfo(FALSE, "", TRUE, e) : e \in EntitySets}
    \cup {SearchInfo(FALSE, "", FALSE, {})}

RecTitle == << Scalar("m.title", "Inception"), Scalar("m.rating", "8.8") >>
SearchResults == { <<>>, <<RecTitle>> }

\* entities.get(slot, default).
EntGet(entities, slot, default) ==
    IF \E p \in entities : p[1] = slot
    THEN (CHOOSE p \in entities : p[1] = slot)[2]
    ELSE default

NoQuery == [call |-> FALSE, query |-> "", param |-> "", value |-> PyNone]
Canned(q, p, x) == [call |-> TRUE, query |-> q, param |-> p, value |-> x]

\* search_database_LimitTen: the default limit of the top rated query is 10.
search_database_LimitTen(search_info) ==
    LET intent == IF search_info.hasIntent THEN PyStr(search_info.intent) ELSE PyNone
        entities == IF search_info.hasEntities THEN search_info.entities ELSE {}
    IN  IF intent = PyStr("search_movies_by_actor")
        THEN Canned(Q_ACTOR, "actor_name", EntGet(entities, "actor_name", PyNone))
        ELSE IF intent = PyStr("search_movies_by_director")
        THEN Canned(Q_DIRECTOR, "director_name", EntGet(entities, "director_name", PyNone))
        ELSE IF intent = PyStr("search_movies_by_genre")
        THEN Canned(Q_GENRE, "genre", EntGet(entities, "genre", PyNone))
        ELSE IF intent = PyStr("get_top_rated_movies")
        THEN Canned(Q_TOP, "limit", EntGet(entities, "limit", PyInt("10")))
        ELSE NoQuery

\* search_database: the canned function it calls and the argument it passes,
\* or no call at all (return []).
search_database(search_info) ==
    LET intent == IF search_info.hasIntent THEN PyStr(search_info.intent) ELSE PyNone
        entities == IF search_info.hasEntities THEN search_info.entities ELSE {}
    IN  IF intent = PyStr("search_movies_by_actor")
        THEN Canned(Q_ACTOR, "actor_name", EntGet(entities, "actor_name", PyNone))
        ELSE IF intent = PyStr("search_movies_by_director")
        THEN Canned(Q_DIRECTOR, "director_name", EntGet(entities, "director_name", PyNone))
        ELSE IF intent = PyStr("search_movies_by_genre")
        THEN Canned(Q_GENRE, "genre", EntGet(entities, "genre", PyNone))
        ELSE IF intent = PyStr("get_top_rated_movies")
        THEN Canned(Q_TOP, "limit", EntGet(entities, "limit", PyInt("5")))
        ELSE NoQuery

chatState == <<history, origin, owner, locals, prevTrans, served, status>>

\* search_database is called with search_info.
SearchCall(search_info) ==
    /\ search.pc = "none"
    /\ search' = [search EXCEPT !.pc = "called", !.search_info = search_info]
    /\ UNCHANGED chatState

\* The dispatch on the intent: return [] or enter the canned function, which
\* opens a session and runs its query with its one parameter.
SearchDispatch ==
    /\ search.pc = "called"
    /\ LET d == search_database(search.search_info) IN
           IF d.call
           THEN search' = [search EXCEPT
                              !.pc = "running", !.open = @ + 1, !.sessions = @ + 1,
                              !.runs = Append(@, [query |-> d.query, param |-> d.param,
                                                  value |-> d.value])]
           ELSE search' = [search EXCEPT !.pc = "returned", !.result = <<>>]
    /\ UNCHANGED chatState

\* The store answers: the records are put in a list and returned, or the
\* error leaves the canned function; the with block closes the session.
SearchFetch(outcome) ==
    /\ search.pc = "running"
    /\ IF outcome \in StoreErrors
       THEN search' = [search EXCEPT !.pc = "raised", !.open = @ - 1,
                                     !.exc = Exc("Neo4jError", outcome, "execute")]
       ELSE search' = [search EXCEPT !.pc = "returned", !.open = @ - 1,
                                     !.result = outcome]
    /\ UNCHANGED chatState

NextSearch ==
    \/ \E search_info \in SearchInfos : SearchCall(search_info)
    \/ SearchDispatch
    \/ \E outcome \in StoreErrors \cup SearchResults : SearchFetch(outcome)

\* One call of MovieChatbot.search_database, for every search_info.
SpecSearch == Init /\ [][NextSearch]_vars


\* ---------------------------------------------------- formatting of results
MaxRecords == 2        \* records in a result of the formatting runs

\* Records of the formatting runs: scalars, nodes, a node without
\* properties, both orders of a node and a scalar.
RecPerson == << Node("p", << <<"name", "Tom Hanks">> >>) >>
RecBare == << Node("e", <<>>) >>
RecMixed == << Scalar("n", "1"),
               Node("m", << <<"year", "2010">>, <<"title", "Inception">> >>),
               Scalar("rating", "8.8") >>
FormatRecords == {RecRating, RecMovie, RecPerson, RecBare, RecMixed}

RECURSIVE SeqsUpTo(_, _)
SeqsUpTo(S, n) ==
    IF n = 0 THEN {<<>>}
    ELSE LET shorter == SeqsUpTo(S, n - 1)
         IN  shorter \cup {Append(s, x) : s \in {u \in shorter : Len(u) = n - 1}, x \in S}

FormatResults == SeqsUpTo(FormatRecords, MaxRecords)

\* A call of thread 1 on engine e that has just left the with block with the
\* records recs: the first call of the engine, its question appended, one
\* translation, one session and one query made.
InitFormat ==
    \E e \in Engines, q \in Questions, recs \in FormatResults :
        /\ history = [x \in Engines |-> IF x = e THEN <<Turn("user", q)>> ELSE <<>>]
        /\ origin = [x \in Engines |-> IF x = e THEN <<"alice">> ELSE <<>>]
        /\ owner = [x \in Engines |-> IF x = e THEN <<1>> ELSE <<>>]
        /\ pc = [t \in Threads |-> IF t = 1 THEN "executed" ELSE "idle"]
        /\ bot = [t \in Threads |-> IF t = 1 THEN e ELSE "none"]
        /\ client = [t \in Threads |-> IF t = 1 THEN "alice" ELSE "none"]
        /\ model = [t \in Threads |-> "none"]
        /\ callId = [t \in Threads |-> IF t = 1 THEN 1 ELSE 0]
        /\ user_question = [t \in Threads |-> IF t = 1 THEN q ELSE <<>>]
        /\ info = [t \in Threads |->
                      IF t = 1 THEN Info(PyStr(CYPHER), PyDict) ELSE EmptyInfo]
        /\ cursor = [t \in Threads |-> <<>>]
        /\ records = [t \in Threads |-> IF t = 1 THEN recs ELSE <<>>]
        /\ ret = [t \in Threads |-> <<>>]
        /\ exc = [t \in Threads |-> NoExc]
        /\ answer = [t \in Threads |-> <<>>]
        /\ open = [t \in Threads |-> 0]
        /\ calls = [t \in Threads |->
                       IF t = 1
                       THEN [NoCalls EXCEPT !.chat = 1, !.translate = 1,
                                            !.sessions = 1, !.runs = 1]
                       ELSE NoCalls]
        /\ preHist = [t \in Threads |-> <<>>]
        /\ overlap = [t \in Threads |-> FALSE]
        /\ transReq = [t \in Threads |->
                          IF t = 1 THEN TranslationRequest(e, q) ELSE NoRequest]
        /\ reply = [t \in Threads |-> NoReply]
        /\ synthReq = [t \in Threads |-> NoRequest]
        /\ prevTrans = [x \in Engines |-> NoPrev]
        /\ served = 1
        /\ search = NoSearch
        /\ status = "none"

\* The rest of such a call up to the answer model call.
NextFormat ==
    \E t \in Threads :
        \/ NoRecords(t)
        \/ AppendResults(t)

\* The formatting of the results of one query, for every result of up to
\* MaxRecords records.
SpecFormat == InitFormat /\ [][NextFormat]_vars


\* ------------------------------------------------------------------ claims
\* bot.chat of thread t has returned or raised (and app.chat may have
\* answered); the thread's locals are still there.
Ended(t) == pc[t] \in {"returned", "raised", "responded"}
Returned(t) == Ended(t) /\ exc[t] = NoExc

\* generate_cypher returned a value without a 'query' member.
TranslationEmpty(t) ==
    /\ pc[t] \notin {"idle", "chat", "translating", "generated"}
    /\ exc[t].at # "translate"
    /\ "query" \notin info[t].members

\* C1: in both engines, when translation yields an empty result the call
\* returns the fixed could-not-generate-a-query apology, opens no store
\* session and runs no query.
C1_EmptyTranslationNeverReachesStore ==
    \A t \in Threads :
        (Ended(t) /\ TranslationEmpty(t)) =>
            /\ Returned(t)
            /\ ret[t] = NoQueryMsg
            /\ calls[t].sessions = 0
            /\ calls[t].runs = 0

\* C2: a call whose query returned at least one record and whose answer call
\* returned leaves the history equal to the history at entry followed by the
\* question, the results block and the assistant's answer, and returns the
\* content of the last Turn.
C2_SuccessAppendsThreeTurns ==
    \A t \in Threads :
        (Returned(t) /\ records[t] # <<>>) =>
            LET h == history[bot[t]]
                n == Len(preHist[t])
            IN  /\ Len(h) = n + 3
                /\ SubSeq(h, 1, n) = preHist[t]
                /\ h[n + 1] = Turn("user", user_question[t])
                /\ h[n + 2].content = UserMsg(user_question[t], records[t])
                /\ h[n + 3] = Turn("assistant", ret[t])

C2_Witness ==
    \E t \in Threads :
        /\ Returned(t) /\ Len(records[t]) = 2
        /\ Len(preHist[t]) >= 1
        /\ ret[t] # <<>>

\* The query ran and the store returned zero records.
ZeroRecords(t) == Returned(t) /\ calls[t].runs = 1 /\ records[t] = <<>>

\* C3: a call whose query returned zero records returns the no-results
\* message and leaves the history grown by two Turns, the question and the
\* message as an assistant Turn.
C3_ZeroRecordsRecordedAsAssistantTurn ==
    \A t \in Threads :
        ZeroRecords(t) =>
            /\ ret[t] = NoResultsMsg(bot[t])
            /\ history[bot[t]] =
                   preHist[t] \o <<Turn("user", user_question[t]),
                                   Turn("assistant", NoResultsMsg(bot[t]))>>

\* C4: a call in which the store rejects the query does not raise: it returns
\* an apology that is neither the could-not-generate-a-query apology nor the
\* no-results message, and it ran the query once.
C4_StoreErrorReturnsApology ==
    \A t \in Threads :
        (Ended(t) /\ calls[t].rejected > 0) =>
            /\ Returned(t)
            /\ ret[t] # <<>>
            /\ ret[t] \notin {NoQueryMsg, NoResultsMsg(bot[t])}
            /\ calls[t].runs <= 1

\* The call ended before a store session was opened (translation failed) or
\* in the execution step (the store or the driver rejected the query).
FailedEarly(t) == Ended(t) /\ (calls[t].sessions = 0 \/ calls[t].rejected > 0)

\* C5: a call that fails at translation or at execution leaves the history
\* equal to the history at entry followed by one Turn, the question.
C5_EarlyFailureAppendsOnlyQuestion ==
    \A t \in Threads :
        FailedEarly(t) =>
            history[bot[t]] = preHist[t] \o <<Turn("user", user_question[t])>>

C5_Witness ==
    \E t \in Threads :
        /\ FailedEarly(t)
        /\ info[t] = EmptyInfo
        /\ calls[t].rejected > 0
        /\ Len(preHist[t]) >= 3

\* The fragments of a text.
Fragments(text) == {text[i] : i \in 1..Len(text)}

\* A fixed apology carries no text of the failure.
FixedApologies == {NoQueryMsg, NoResultsMsg(chatbot), NoResultsMsg(gemini_bot),
                   <<"Sorry, I had a problem.">>}

\* C6: whatever fails inside the engine, the answer of the /chat response is
\* one of the fixed apologies and holds no text of the exception.
C6_AnswerNeverCarriesErrorText ==
    \A t \in Threads :
        (pc[t] = "responded" /\ (exc[t] # NoExc \/ calls[t].sessions = 0)) =>
            /\ answer[t] \in FixedApologies
            /\ exc[t].msg \notin Fragments(answer[t])

\* C7: for every raw reply of the model, generate_cypher does not raise and
\* returns a parsed object (with 'query', or the empty result).
C7_TranslateNeverRaises ==
    \A t \in Threads :
        reply[t].received =>
            /\ exc[t].type # "IndexError"
            /\ info[t].isDict

\* C8: no step removes, replaces or reorders a Turn: the history of each
\* engine before a step is a prefix of its history after the step.
C8_HistoryAppendOnly ==
    [][\A e \in Engines : IsPrefix(history[e], history'[e])]_vars

C8_Witness ==
    \E e \in Engines :
        /\ Len(history[e]) >= 4
        /\ \E t \in Threads : pc[t] = "raised" /\ bot[t] = e

\* C9: the translation request carries the running history: the same
\* question asked of one engine after two different histories yields two
\* different translation requests.
C9_TranslationRequestDependsOnHistory ==
    \A t \in Threads :
        (/\ pc[t] = "translating"
         /\ prevTrans[bot[t]].asked
         /\ prevTrans[bot[t]].question = user_question[t]
         /\ prevTrans[bot[t]].hist # preHist[t]) =>
            transReq[t] # prevTrans[bot[t]].request

\* C10: no Turn produced by one end user's session is in the history that
\* serves another end user.
C10_SessionsDoNotShareHistory ==
    \A t \in Threads :
        pc[t] \notin {"idle", "chat"} =>
            \A i \in 1..Len(origin[bot[t]]) : origin[bot[t]][i] = client[t]

\* C12: a store session opened by a call is released on every exit path of
\* the execution step: once bot.chat has returned or raised, the thread holds
\* no open store session.
C12_SessionReleasedOnEveryExit ==
    \A t \in Threads : Ended(t) => open[t] = 0

C12_Witness ==
    \E t \in Threads :
        /\ pc[t] = "raised"
        /\ exc[t].type = "Neo4jError"
        /\ calls[t].sessions = 1
        /\ open[t] = 0

\* C13: there are no automatic retries: a call makes the translation model
\* call, the store query and the answer model call at most once each, and a
\* failure of one of them ends the call, with none of the later steps made.
C13_NoRetries ==
    \A t \in Threads :
        /\ calls[t].translate <= 1
        /\ calls[t].runs <= 1
        /\ calls[t].synthesize <= 1
        /\ exc[t] # NoExc =>
               /\ pc[t] \in {"raised", "responded"}
               /\ exc[t].at = "translate" => calls[t].sessions = 0
               /\ exc[t].at \in {"translate", "execute"} => calls[t].synthesize = 0

C13_Witness ==
    \E t \in Threads :
        /\ pc[t] = "raised"
        /\ exc[t].at = "synthesize"
        /\ calls[t].translate = 1
        /\ calls[t].runs = 1
        /\ calls[t].synthesize = 1

\* The answer model call of thread t returned (the call went through the
\* synthesis step and did not raise).
Synthesized(t) == Returned(t) /\ calls[t].synthesize = 1

\* C14: when the answer model call returns text that is empty after
\* stripping, bot.chat returns a generic apology, not the empty text: a call
\* that went through synthesis never returns the empty text, and never
\* records an empty assistant Turn.
C14_EmptyAnswerBecomesApology ==
    \A t \in Threads :
        Synthesized(t) =>
            /\ ret[t] # <<>>
            /\ history[bot[t]][Len(history[bot[t]])].content # <<>>

\* The results blocks that can be built from a question and a result.
ResultsBlocks == {UserMsg(q, r) : q \in Questions, r \in ResultSets \ {<<>>}}

\* C15: the results block is appended with a role of its own, distinct from
\* user and assistant: in every history a results block is not a user Turn
\* nor an assistant Turn, and the Turns with role user are the end users'
\* questions.
C15_ResultsBlockIsSystemContext ==
    \A e \in Engines : \A i \in 1..Len(history[e]) :
        /\ history[e][i].content \in ResultsBlocks =>
               history[e][i].role \notin {"user", "assistant"}
        /\ history[e][i].role = "user" => history[e][i].content \in Questions

\* What C16 says of one step of the front end.
C16_Step ==
    /\ \A t \in Threads :
           \* the request is read: the engine is picked from its model field
           /\ (pc[t] = "idle" /\ pc'[t] = "chat") =>
                  bot'[t] = IF model'[t] = "gemini" THEN gemini_bot ELSE chatbot
           \* bot.chat is entered: it is the first call of this request
           /\ (pc[t] = "chat" /\ pc'[t] # "chat") => calls'[t].chat = 1
           \* the response is sent: one call was made, no other is made later
           /\ (pc[t] # "responded" /\ pc'[t] = "responded") => calls[t].chat = 1
           /\ (pc[t] \notin {"idle", "chat"} /\ pc'[t] # "idle") =>
                  calls'[t].chat = calls[t].chat /\ bot'[t] = bot[t]
    /\ \A e \in Engines :
           \* a history changes only in a step of a request that picked it
           history'[e] # history[e] =>
               \E t \in Threads : bot[t] = e /\ pc[t] # "idle" /\ pc'[t] # pc[t]

\* C16: each /chat request makes exactly one bot.chat call, on the Gemini
\* engine when its model field is 'gemini' and on the other engine for any
\* other value or a missing field, and changes the history of no engine but
\* the one it picked.
C16_OneCallOnOneEngine == [][C16_Step]_vars

C16_Witness ==
    \E t \in Threads :
        /\ pc[t] = "chat"
        /\ model[t] = "absent"
        /\ bot[t] = chatbot
        /\ history[gemini_bot] # <<>>
        /\ history[chatbot] = <<>>

\* The results block of thread t's call is in the history.
BlockAppended(t) == pc[t] = "synthesizing" \/ (Ended(t) /\ calls[t].synthesize = 1)

\* C17: the results block depends on the question and the records only, not
\* on the engine or its state: the block a call appended is UserMsg of its
\* question and its records wherever in a session the call was made, and
\* every block of a history, old or new, is UserMsg of the question before
\* it and of some result; so the same question and records give the same
\* block at any two points.
C17_NormalizationIsStateIndependent ==
    /\ \A t \in Threads :
           BlockAppended(t) =>
               history[bot[t]][Len(preHist[t]) + 2].content =
                   UserMsg(user_question[t], records[t])
    /\ \A e \in Engines : \A i \in 1..Len(history[e]) :
           (history[e][i].role = "user" /\ history[e][i].content \notin Questions) =>
               /\ i > 1
               /\ \E r \in ResultSets \ {<<>>} :
                      history[e][i].content = UserMsg(history[e][i - 1].content, r)

\* The same question with the same records, formatted at two points of one
\* engine's history.
C17_Witness ==
    \E t \in Threads :
        /\ BlockAppended(t)
        /\ Len(preHist[t]) >= 2
        /\ history[bot[t]][2] = history[bot[t]][Len(preHist[t]) + 2]
        /\ Len(records[t]) = 2

\* The last n fragments of a text.
Suffix(text, n) == SubSeq(text, Len(text) - n + 1, Len(text))

\* C18: while the answer model call is in flight, its request carries the
\* whole history of the engine in order, no Turn left out, and its last Turn
\* is the results block just appended for the current question.
C18_SynthesisRequestCarriesWholeHistory ==
    \A t \in Threads :
        pc[t] = "synthesizing" =>
            LET h == history[bot[t]]
                block == UserMsg(user_question[t], records[t])
                req == synthReq[t]
            IN  /\ h[Len(h)].content = block
                /\ req = SynthesisRequest(bot[t], h)
                /\ bot[t] = chatbot =>
                       /\ Len(req.messages) = Len(h) + 1
                       /\ Tail(req.messages) = h
                       /\ req.messages[Len(req.messages)].content = block
                /\ bot[t] = gemini_bot =>
                       /\ Len(req.contents) >= Len(block)
                       /\ Suffix(req.contents, Len(block)) = block
                       /\ \A i \in 1..Len(h) :
                              \E k \in 1..Len(req.contents) :
                                  /\ k + 1 + Len(h[i].content) <= Len(req.contents)
                                  /\ req.contents[k] = h[i].role
                                  /\ SubSeq(req.contents, k + 2, k + 1 + Len(h[i].content))
                                         = h[i].content

C18_Witness ==
    \E t \in Threads :
        /\ pc[t] = "synthesizing"
        /\ bot[t] = gemini_bot
        /\ Len(history[bot[t]]) >= 5
        /\ synthReq[t] # NoRequest

\* C20: within a call no store session is open while a model call is in
\* flight: none is opened before the translation call has returned, and the
\* one opened for the query is closed before the answer call starts.
C20_NoSessionAcrossModelCalls ==
    \A t \in Threads :
        /\ pc[t] = "translating" => (open[t] = 0 /\ calls[t].sessions = 0)
        /\ pc[t] = "synthesizing" => open[t] = 0
        /\ open[t] > 0 => pc[t] \in {"session", "cursor", "materialized"}

C20_Witness ==
    \E t \in Threads :
        /\ pc[t] = "synthesizing"
        /\ calls[t].sessions = 1
        /\ calls[t].runs = 1
        /\ open[t] = 0

\* C11: calls of bot.chat on one engine are serialized: at most one call is
\* in progress on an engine at any time, with /chat requests served
\* concurrently.
C11_CallsSerializedPerEngine ==
    \A e \in Engines : Cardinality({t \in Threads : InChat(t) /\ bot[t] = e}) <= 1

\* The Turns thread t's call appended, by their place in the history.
OwnTurns(t) == {i \in 1..Len(owner[bot[t]]) : owner[bot[t]][i] = callId[t]}

\* A Turn of another call lies between two Turns of thread t's call.
NonContiguous(t) ==
    \E i \in OwnTurns(t), k \in OwnTurns(t) :
        \E j \in i..k : owner[bot[t]][j] # callId[t]

\* The request of thread t's answer call holds more than the history at
\* entry, the question and the results block of the call.
Foreign(t) ==
    /\ synthReq[t] # NoRequest
    /\ synthReq[t] # SynthesisRequest(bot[t],
                         preHist[t] \o <<Turn("user", user_question[t]),
                                         Turn("user", UserMsg(user_question[t], records[t]))>>)

\* C19: the appends of two calls that overlap on one engine race.  The Turns
\* of a call are split by a Turn of another call, or its answer request holds
\* Turns of another call made since it was entered, only when the call
\* overlapped with another on the engine; and such a state is reachable
\* (C19_Witness).
C19_OverlappingCallsRace ==
    \A t \in Threads :
        ((InChat(t) \/ Ended(t)) /\ (NonContiguous(t) \/ Foreign(t))) => overlap[t]

\* An answer call in flight whose own Turns are split by the other call's
\* question, that question being in its request.
C19_Witness ==
    \E t \in Threads, u \in Threads :
        /\ u # t /\ bot[u] = chatbot /\ bot[t] = chatbot
        /\ pc[t] = "synthesizing" /\ InChat(u)
        /\ user_question[u] # user_question[t]
        /\ NonContiguous(t)
        /\ Foreign(t)
        /\ \E i \in 1..Len(synthReq[t].messages) :
               synthReq[t].messages[i] = Turn("user", user_question[u])

\* The order of the steps of thread t's call, read off a state.
C21_Order(t) ==
    \* the translation call is made with the question already appended
    /\ calls[t].translate = 1 =>
           /\ Len(history[bot[t]]) > Len(preHist[t])
           /\ history[bot[t]][Len(preHist[t]) + 1] = Turn("user", user_question[t])
    \* a session is opened and the query is run after translation has returned
    /\ (calls[t].sessions > 0 \/ calls[t].runs > 0) =>
           /\ calls[t].translate = 1
           /\ pc[t] \notin {"chat", "translating", "generated"}
           /\ exc[t].at # "translate"
    \* the answer call is made after the query has returned a record
    /\ calls[t].synthesize > 0 =>
           /\ calls[t].runs = 1
           /\ calls[t].rejected = 0
           /\ records[t] # <<>>
           /\ pc[t] \notin {"chat", "translating", "generated", "translated",
                             "session", "cursor", "materialized", "executed"}

\* The positions a call can move to from each position.
C21_After(p) ==
    CASE p = "idle" -> {"chat"}
      [] p = "chat" -> {"translating"}
      [] p = "translating" -> {"generated", "raised"}
      [] p = "generated" -> {"translated", "returned", "raised"}
      [] p = "translated" -> {"session"}
      [] p = "session" -> {"cursor", "raised"}
      [] p = "cursor" -> {"materialized"}
      [] p = "materialized" -> {"executed"}
      [] p = "executed" -> {"synthesizing", "returned"}
      [] p = "synthesizing" -> {"returned", "raised"}
      [] p = "returned" -> {"responded"}
      [] p = "raised" -> {"responded"}
      [] OTHER -> {"idle"}

C21_Step ==
    \A t \in Threads :
        /\ pc'[t] # pc[t] => pc'[t] \in C21_After(pc[t])
        \* a call that has returned or raised does nothing more
        /\ (Ended(t) /\ pc'[t] # "idle") =>
               /\ history'[bot[t]] = history[bot[t]]
               /\ calls'[t] = calls[t]
               /\ open'[t] = open[t]
               /\ ret'[t] = ret[t] /\ exc'[t] = exc[t]

\* C21: each call follows the fixed order of steps: the question is appended
\* before the translation call, the query is run only after translation has
\* returned, the answer call is made only after the query has returned at
\* least one record, and a call that has returned or raised takes no further
\* step and appends nothing more.
C21_FixedStepOrder == [](\A t \in Threads : C21_Order(t)) /\ [][C21_Step]_vars

C21_Witness ==
    \E t \in Threads :
        /\ pc[t] = "responded" /\ Returned(t)
        /\ calls[t].translate = 1 /\ calls[t].runs = 1 /\ calls[t].synthesize = 1
        /\ Len(preHist[t]) >= 1

\* What C22 says of one step: records are read from the cursor, all of them
\* at once, in a step that begins and ends with the session open.
C22_Step ==
    \A t \in Threads :
        (records'[t] # records[t] /\ pc'[t] # "idle") =>
            /\ open[t] = 1 /\ open'[t] = 1
            /\ records'[t] = cursor[t]
            /\ cursor'[t] = <<>>

\* C22: the whole result is materialized before the store session is
\* released: results not yet read exist only while the session is open, the
\* records are read with the session open, and the block a call formats is
\* made of the records read then.
C22_MaterializedBeforeRelease ==
    /\ [](\A t \in Threads :
             /\ cursor[t] # <<>> => (open[t] = 1 /\ pc[t] = "cursor")
             /\ records[t] # <<>> => cursor[t] = <<>>
             /\ BlockAppended(t) =>
                    history[bot[t]][Len(preHist[t]) + 2].content
                        = UserMsg(user_question[t], records[t]))
    /\ [][C22_Step]_vars

C22_Witness ==
    \E t \in Threads :
        /\ pc[t] = "synthesizing"
        /\ Len(records[t]) = 2
        /\ cursor[t] = <<>>
        /\ open[t] = 0

\* The pieces of a text between the fragments equal to sep.
RECURSIVE Split(_, _)
Split(text, sep) ==
    IF \A k \in 1..Len(text) : text[k] # sep THEN <<text>>
    ELSE LET k == CHOOSE i \in 1..Len(text) :
                      text[i] = sep /\ \A j \in 1..(i - 1) : text[j] # sep
         IN  <<SubSeq(text, 1, k - 1)>> \o Split(SubSeq(text, k + 1, Len(text)), sep)

\* The lines of the results in the block thread t's call appended: the block
\* without the lines before and after the results, and without the header.
BlockLines(t) ==
    LET block == history[bot[t]][Len(preHist[t]) + 2].content
        first == 1 + Len(user_question[t]) + 2
        body == SubSeq(block, first + 1, Len(block) - 2)
    IN  Tail(Split(body, "\n"))

\* The name/value pairs read back from one line of the block.
LineItems(line) ==
    IF Len(line) = 1 THEN <<>>
    ELSE LET items == Split(Tail(line), ", ")
         IN  [i \in 1..Len(items) |-> <<items[i][1], items[i][3]>>]

\* The name/value pairs a record is to give: the properties of a column that
\* has them, the column and its value otherwise, in the record's order.
RECURSIVE ExpectedItems(_)
ExpectedItems(rec) ==
    IF rec = <<>> THEN <<>>
    ELSE (IF Head(rec).composite THEN Head(rec).items
          ELSE << <<Head(rec).key, Head(rec).scalar>> >>)
         \o ExpectedItems(Tail(rec))

\* C23: the results block has one line per record in the store's order; a
\* line has, in column order, one 'prop: value' item per property of a
\* column that exposes properties (its own name is not emitted) and one
\* 'column: value' item for every other column; nothing is sorted, dropped
\* or deduplicated.
C23_BlockFollowsStoreOrder ==
    \A t \in Threads :
        pc[t] = "synthesizing" =>
            LET lines == BlockLines(t) IN
                /\ Len(lines) = Len(records[t])
                /\ \A i \in 1..Len(lines) :
                       /\ lines[i][1] = "- "
                       /\ \A k \in 1..Len(lines[i]) :
                              (k > 1 /\ k % 4 = 1) <=> lines[i][k] = ", "
                       /\ \A k \in 1..Len(lines[i]) :
                              k % 4 = 3 <=> lines[i][k] = ": "
                       /\ LineItems(lines[i]) = ExpectedItems(records[t][i])

\* The same record twice, with a scalar before a node whose properties are
\* not in alphabetical order.
C23_Witness ==
    \E t \in Threads :
        /\ pc[t] = "synthesizing"
        /\ records[t] = <<RecMixed, RecMixed>>
        /\ Len(BlockLines(t)) = 2

\* How far a request is.
Rank(p) ==
    CASE p = "idle" -> 0
      [] p = "chat" -> 1
      [] p = "translating" -> 2
      [] p = "generated" -> 3
      [] p = "translated" -> 4
      [] p = "session" -> 5
      [] p = "cursor" -> 6
      [] p = "materialized" -> 7
      [] p = "executed" -> 8
      [] p = "synthesizing" -> 9
      [] p = "returned" -> 10
      [] p = "raised" -> 10
      [] OTHER -> 11

\* C24: every call terminates: with model and store calls that eventually
\* return or raise, a call that was started eventually returns or raises, and
\* it gets there in a bounded number of steps, each step of a call taking it
\* further.
C24_CallTerminates ==
    /\ \A t \in Threads :
           (pc[t] = "chat") ~> (pc[t] \in {"returned", "raised"})
    /\ [][\A t \in Threads :
             (pc'[t] # pc[t] /\ pc[t] # "responded") => Rank(pc'[t]) > Rank(pc[t])]_vars

C24_Witness ==
    \E t \in Threads :
        /\ pc[t] = "returned"
        /\ calls[t].chat = 1 /\ calls[t].synthesize = 1
        /\ Len(records[t]) = 2

\* The query and the entity slot the spec gives each of the four intents.
IntentTable ==
    [search_movies_by_actor |-> <<Q_ACTOR, "actor_name">>,
     search_movies_by_director |-> <<Q_DIRECTOR, "director_name">>,
     search_movies_by_genre |-> <<Q_GENRE, "genre">>,
     get_top_rated_movies |-> <<Q_TOP, "limit">>]

\* C25: search_database applies a fixed mapping: each of the four intents
\* opens one session and runs one canned query, with the entity of its slot
\* bound to its one parameter (nothing when the slot is missing, 5 for a
\* missing limit of top rated); any other intent, or none, returns an empty
\* list without opening a session.
C25_IntentMapping ==
    search.pc \in {"running", "returned", "raised"} =>
        LET si == search.search_info
            ents == IF si.hasEntities THEN si.entities ELSE {}
        IN  IF si.hasIntent /\ si.intent \in DOMAIN IntentTable
            THEN LET slot == IntentTable[si.intent][2] IN
                 /\ search.sessions = 1
                 /\ Len(search.runs) = 1
                 /\ search.runs[1].query = IntentTable[si.intent][1]
                 /\ search.runs[1].param = slot
                 /\ \A p \in ents : p[1] = slot => search.runs[1].value = p[2]
                 /\ (\A p \in ents : p[1] # slot) =>
                        search.runs[1].value =
                            IF slot = "limit" THEN PyInt("5") ELSE PyNone
                 /\ search.pc # "running" => search.open = 0
            ELSE /\ search.pc = "returned"
                 /\ search.result = <<>>
                 /\ search.sessions = 0
                 /\ search.runs = <<>>

C25_Witness ==
    /\ search.pc = "returned"
    /\ search.search_info = SearchInfo(TRUE, "get_top_rated_movies", FALSE, {})
    /\ search.runs = <<[query |-> Q_TOP, param |-> "limit", value |-> PyInt("5")]>>
    /\ search.result = <<RecTitle>>

\* piece is a run of consecutive fragments, or elements, of text.
Contains(text, piece) ==
    \E k \in 1..(Len(text) - Len(piece) + 1) :
        SubSeq(text, k, k + Len(piece) - 1) = piece

\* Turn i of h is a results block that no assistant Turn follows: the answer
\* call of the call that appended it raised.
Orphan(h, i) ==
    /\ i >= 2
    /\ h[i].role = "user" /\ h[i].content \in ResultsBlocks
    /\ i = Len(h) \/ h[i + 1].role # "assistant"

\* C26: when the answer model call raises, no assistant Turn is appended and
\* the results block stays: the history is the history at entry followed by
\* the question and the block; and the request of a later answer call holds
\* the question and the block of the failed call, one after the other.
C26_FailedSynthesisKeepsBlock ==
    \A t \in Threads :
        /\ (Ended(t) /\ exc[t].at = "synthesize") =>
               history[bot[t]] =
                   preHist[t] \o <<Turn("user", user_question[t]),
                                   Turn("user", UserMsg(user_question[t], records[t]))>>
        /\ pc[t] = "synthesizing" =>
               \A i \in 1..Len(preHist[t]) :
                   Orphan(preHist[t], i) =>
                       LET h == preHist[t] IN
                       IF bot[t] = chatbot
                       THEN Contains(synthReq[t].messages, <<h[i - 1], h[i]>>)
                       ELSE Contains(synthReq[t].contents,
                                <<h[i - 1].role, ": ">> \o h[i - 1].content
                                \o <<"\n", h[i].role, ": ">> \o h[i].content)

\* An answer call in flight on an engine whose previous call failed at its
\* answer call.
C26_Witness ==
    \E t \in Threads :
        /\ pc[t] = "synthesizing"
        /\ Len(preHist[t]) = 2
        /\ Orphan(preHist[t], 2)

\* The Turns of a history that are questions, and those that are answers.
QuestionTurns(h) == {i \in 1..Len(h) : h[i].role = "user" /\ h[i].content \in Questions}
AssistantTurns(h) == {i \in 1..Len(h) : h[i].role = "assistant"}

\* The calls of bot.chat started so far: the requests accepted, but those
\* whose thread has not yet called bot.chat.
CallsStarted == served - Cardinality({t \in Threads : pc[t] = "chat"})

\* C27: with the calls of an engine made one at a time, every assistant Turn
\* comes right after a results block, which comes right after the question
\* of the same call; there are never more assistant Turns than calls
\* started, and there are as many question Turns as calls started.
C27_HistoryShape ==
    /\ \A e \in Engines : \A i \in AssistantTurns(history[e]) :
           /\ i >= 3
           /\ history[e][i - 1].role = "user"
           /\ history[e][i - 2] \in {Turn("user", q) : q \in Questions}
           /\ \E r \in ResultSets \ {<<>>} :
                  history[e][i - 1].content = UserMsg(history[e][i - 2].content, r)
           /\ owner[e][i - 1] = owner[e][i] /\ owner[e][i - 2] = owner[e][i]
    /\ Cardinality(QuestionTurns(history[chatbot]))
           + Cardinality(QuestionTurns(history[gemini_bot])) = CallsStarted
    /\ Cardinality(AssistantTurns(history[chatbot]))
           + Cardinality(AssistantTurns(history[gemini_bot])) <= CallsStarted

\* A history of a call that failed early followed by a call that answered.
C27_Witness ==
    \E e \in Engines :
        /\ Len(history[e]) = 4
        /\ AssistantTurns(history[e]) = {4}
        /\ QuestionTurns(history[e]) = {1, 2}

\* What C28 says of one step.
C28_Step ==
    \* a /set_model request changes nothing of the engines and the requests
    /\ status' # status =>
           UNCHANGED <<history, origin, owner, locals, prevTrans, served, search>>
    \* a /chat request is given to the engine its own model field names
    /\ \A t \in Threads :
           (pc[t] = "idle" /\ pc'[t] = "chat") =>
               bot'[t] = IF model'[t] = "gemini" THEN gemini_bot ELSE chatbot

=============================================================================
